---- MODULE Spec2Model ----
(***************************************************************************)
(* Model of samples/python/llama_weight_convert.py: reformat_quantized()    *)
(* builds the parameter name list for a GPTQ-quantized LLaMa checkpoint and *)
(* writes every tensor it finds into an uncompressed zip file under a       *)
(* type-prefixed name.                                                      *)
(***************************************************************************)
EXTENDS Integers, Sequences, FiniteSets, TLC

\* ------------------------------------------------------------------------
\* Bounds of the model
\* ------------------------------------------------------------------------

\* largest num_layers argument explored
MaxLayers == 2

\* tensors have between 1 and MaxNumel elements
MaxNumel == 2

\* ------------------------------------------------------------------------
\* Tensors (torch.Tensor as far as the converter uses it)
\* ------------------------------------------------------------------------

\* dtypes the converter has a branch for
SupportedDTypes == {"float32", "float16", "int32"}

\* dtypes a checkpoint tensor may have in the model; float64 stands for every
\* dtype that falls into the else branch
DTypes == SupportedDTypes \cup {"float64"}

\* little-endian storage of one element, as numpy's tobytes() lays it out
ElemBytes(dtype, v) ==
  CASE dtype = "float32" -> IF v = 0 THEN <<0, 0, 0, 0>> ELSE <<0, 0, 128, 63>>
    [] dtype = "float16" -> IF v = 0 THEN <<0, 0>> ELSE <<0, 60>>
    [] dtype = "int32"   -> <<v, 0, 0, 0>>
    [] dtype = "float64" -> IF v = 0 THEN <<0, 0, 0, 0, 0, 0, 0, 0>>
                                     ELSE <<0, 0, 0, 0, 0, 0, 240, 63>>

RECURSIVE ValsBytes(_, _)
ValsBytes(dtype, vals) ==
  IF vals = <<>> THEN <<>>
  ELSE ElemBytes(dtype, Head(vals)) \o ValsBytes(dtype, Tail(vals))

\* tensor.numpy().tobytes()
ToBytes(tensor) == ValsBytes(tensor.dtype, tensor.vals)

\* a conversion that leaves the tensor as it is
ToKeepsType(tensor, dtype) == tensor

\* tensor.to(dtype): a value conversion, the elements keep their values and
\* are stored in the new element type
To(tensor, dtype) == [dtype |-> dtype, vals |-> tensor.vals]

\* ------------------------------------------------------------------------
\* The parameter list (lines 20-51)
\* ------------------------------------------------------------------------

\* 'text%dtext' % layer
FormatD(pre, layer, post) == pre \o ToString(layer) \o post

\* the local variable prefix of line 21
prefix == "model.layers."

\* the 26 tuples (param, oparam, castable, optional) appended per layer
LayerParams(layer) ==
  << <<FormatD(prefix, layer, ".self_attn.q_proj.qweight"), FormatD("dec", layer, "att.query.weights"), FALSE, FALSE>>,
     <<FormatD(prefix, layer, ".self_attn.q_proj.scales"),  FormatD("dec", layer, "att.query.scales"),  FALSE, FALSE>>,
     <<FormatD(prefix, layer, ".self_attn.q_proj.qzeros"),  FormatD("dec", layer, "att.query.zeros"),   FALSE, FALSE>>,
     <<FormatD(prefix, layer, ".self_attn.k_proj.qweight"), FormatD("dec", layer, "att.key.weights"),   FALSE, FALSE>>,
     <<FormatD(prefix, layer, ".self_attn.k_proj.scales"),  FormatD("dec", layer, "att.key.scales"),    FALSE, FALSE>>,
     <<FormatD(prefix, layer, ".self_attn.k_proj.qzeros"),  FormatD("dec", layer, "att.key.zeros"),     FALSE, FALSE>>,
     <<FormatD(prefix, layer, ".self_attn.v_proj.qweight"), FormatD("dec", layer, "att.value.weights"), FALSE, FALSE>>,
     <<FormatD(prefix, layer, ".self_attn.v_proj.scales"),  FormatD("dec", layer, "att.value.scales"),  FALSE, FALSE>>,
     <<FormatD(prefix, layer, ".self_attn.v_proj.qzeros"),  FormatD("dec", layer, "att.value.zeros"),   FALSE, FALSE>>,
     <<FormatD(prefix, layer, ".self_attn.o_proj.qweight"), FormatD("dec", layer, "att.out.weights"),   FALSE, FALSE>>,
     <<FormatD(prefix, layer, ".self_attn.o_proj.scales"),  FormatD("dec", layer, "att.out.scales"),    FALSE, FALSE>>,
     <<FormatD(prefix, layer, ".self_attn.o_proj.qzeros"),  FormatD("dec", layer, "att.out.zeros"),     FALSE, FALSE>>,
     <<FormatD(prefix, layer, ".mlp.gate_proj.qweight"),    FormatD("dec", layer, "gate.weights"),      FALSE, FALSE>>,
     <<FormatD(prefix, layer, ".mlp.gate_proj.bias"),       FormatD("dec", layer, "gate.bias"),         FALSE, TRUE>>,
     <<FormatD(prefix, layer, ".mlp.gate_proj.scales"),     FormatD("dec", layer, "gate.scales"),       FALSE, FALSE>>,
     <<FormatD(prefix, layer, ".mlp.gate_proj.qzeros"),     FormatD("dec", layer, "gate.zeros"),        FALSE, FALSE>>,
     <<FormatD(prefix, layer, ".mlp.up_proj.qweight"),      FormatD("dec", layer, "up.weights"),        FALSE, FALSE>>,
     <<FormatD(prefix, layer, ".mlp.up_proj.bias"),         FormatD("dec", layer, "up.bias"),           FALSE, TRUE>>,
     <<FormatD(prefix, layer, ".mlp.up_proj.scales"),       FormatD("dec", layer, "up.scales"),         FALSE, FALSE>>,
     <<FormatD(prefix, layer, ".mlp.up_proj.qzeros"),       FormatD("dec", layer, "up.zeros"),          FALSE, FALSE>>,
     <<FormatD(prefix, layer, ".mlp.down_proj.qweight"),    FormatD("dec", layer, "down.weights"),      FALSE, TRUE>>,
     <<FormatD(prefix, layer, ".mlp.down_proj.bias"),       FormatD("dec", layer, "down.bias"),         FALSE, TRUE>>,
     <<FormatD(prefix, layer, ".mlp.down_proj.scales"),     FormatD("dec", layer, "down.scales"),       FALSE, FALSE>>,
     <<FormatD(prefix, layer, ".mlp.down_proj.qzeros"),     FormatD("dec", layer, "down.zeros"),        FALSE, FALSE>>,
     <<FormatD(prefix, layer, ".input_layernorm.weight"),   FormatD("dec", layer, "ln0.weights"),       TRUE, FALSE>>,
     <<FormatD(prefix, layer, ".post_attention_layernorm.weight"), FormatD("dec", layer, "ln1.weights"), TRUE, FALSE>> >>

\* the loop run over range(num_layers + 1)
RECURSIVE LayersFromInclusive(_, _)
LayersFromInclusive(layer, num_layers) ==
  IF layer > num_layers THEN <<>>
  ELSE LayerParams(layer) \o LayersFromInclusive(layer + 1, num_layers)

\* the for loop of line 23: range(num_layers) from layer `layer` on
RECURSIVE LayersFrom(_, _)
LayersFrom(layer, num_layers) ==
  IF layer >= num_layers THEN <<>>
  ELSE LayerParams(layer) \o LayersFrom(layer + 1, num_layers)

\* paramlist as it stands at line 52
ParamList(num_layers) ==
  << <<"model.embed_tokens.weight", "embedding.embed", TRUE, FALSE>> >>
    \o LayersFrom(0, num_layers)
    \o << <<"model.norm.weight", "modelnorm.weights", TRUE, FALSE>>,
          <<"lm_head.weight", "tokenscoring.embed", TRUE, FALSE>> >>

\* ------------------------------------------------------------------------
\* State
\* ------------------------------------------------------------------------

VARIABLES
  params,      \* argument: the checkpoint dictionary, key -> tensor
  num_layers,  \* argument
  downcast,    \* argument
  paramlist,   \* local: the list of (param, oparam, castable, optional)
  index,       \* position of the for loop of line 54 in paramlist (1-based)
  outfile,     \* the entries written to the zip file so far, in order
  closes,      \* number of times the zip file was closed (its directory written)
  stdout,      \* the lines printed
  retval,      \* "unset" while running, then repr() of the returned value
  pc           \* "start", "loop" or "done"

vars == <<params, num_layers, downcast, paramlist, index, outfile, closes,
          stdout, retval, pc>>

\* ------------------------------------------------------------------------
\* Inputs: the checkpoint dictionaries explored
\* ------------------------------------------------------------------------

\* the quantized linear layers of one decoder layer of a GPTQ LLaMa checkpoint
AttnProj == {".self_attn.q_proj", ".self_attn.k_proj", ".self_attn.v_proj",
             ".self_attn.o_proj"}

MlpProj == {".mlp.gate_proj", ".mlp.up_proj", ".mlp.down_proj"}

LayerRange(n) == 0..(n - 1)

QuantKeys(n, projs, part) ==
  {FormatD(prefix, l, p \o part) : l \in LayerRange(n), p \in projs}

NormKeys(n) ==
  {FormatD(prefix, l, s) : l \in LayerRange(n),
     s \in {".input_layernorm.weight", ".post_attention_layernorm.weight"}}

GlobalKeys == {"model.embed_tokens.weight", "model.norm.weight", "lm_head.weight"}

\* the keys of a complete checkpoint of n decoder layers
CheckpointKeys(n) ==
  GlobalKeys
    \cup NormKeys(n)
    \cup QuantKeys(n, AttnProj \cup MlpProj, ".qweight")
    \cup QuantKeys(n, AttnProj \cup MlpProj, ".scales")
    \cup QuantKeys(n, AttnProj \cup MlpProj, ".qzeros")
    \cup QuantKeys(n, AttnProj \cup MlpProj, ".bias")
    \cup {FormatD(prefix, l, ".self_attn.rotary_emb.inv_freq") : l \in LayerRange(n)}

\* the element values stored under a key: 1..MaxNumel elements, each 0 or 1
\* (both exactly representable in every dtype)
KeyVals(key) ==
  [j \in 1..(1 + (Len(key) % MaxNumel)) |-> (Len(key) + j) % 2]

\* the kinds of checkpoint: every tensor float32; the packed integers int32 and
\* the rest float16; the latter without the biases of the MLP layers
Backgrounds == {"float32", "gptq", "gptq-nobias"}

BackgroundKeys(n, bg) ==
  IF bg = "gptq-nobias"
  THEN CheckpointKeys(n) \ QuantKeys(n, MlpProj, ".bias")
  ELSE CheckpointKeys(n)

BackgroundDType(n, bg, key) ==
  IF bg = "float32" THEN "float32"
  ELSE IF key \in QuantKeys(n, AttnProj \cup MlpProj, ".qweight")
                    \cup QuantKeys(n, AttnProj \cup MlpProj, ".qzeros")
       THEN "int32"
       ELSE "float16"

\* one deviation from the background: a key the converter reads is absent, or
\* its tensor is float16 or float64; "-" is no key
FaultKinds == {"absent", "float16", "float64"}

\* the keys the converter reads
ListedKeys(n) ==
  CheckpointKeys(n)
    \ (QuantKeys(n, AttnProj, ".bias")
         \cup {FormatD(prefix, l, ".self_attn.rotary_emb.inv_freq") : l \in LayerRange(n)})

Checkpoint(n, bg, fkey, fkind) ==
  LET ks == IF fkind = "absent" THEN BackgroundKeys(n, bg) \ {fkey}
            ELSE BackgroundKeys(n, bg) \cup ({fkey} \ {"-"})
  IN [key \in ks |->
        [dtype |-> IF key = fkey THEN fkind ELSE BackgroundDType(n, bg, key),
         vals  |-> KeyVals(key)]]

Init ==
  /\ num_layers \in 0..MaxLayers
  /\ downcast \in BOOLEAN
  /\ \E bg \in Backgrounds, fkey \in ListedKeys(num_layers) \cup {"-"},
        fkind \in FaultKinds :
       params = Checkpoint(num_layers, bg, fkey, fkind)
  /\ paramlist = <<>>
  /\ index = 0
  /\ outfile = <<>>
  /\ closes = 0
  /\ stdout = <<>>
  /\ retval = "unset"
  /\ pc = "start"

\* ------------------------------------------------------------------------
\* reformat_quantized
\* ------------------------------------------------------------------------

\* lines 20-53: the list is built and the zip file opened for writing
BuildParamList ==
  /\ pc = "start"
  /\ paramlist' = ParamList(num_layers)
  /\ index' = 1
  /\ pc' = "loop"
  /\ UNCHANGED <<params, num_layers, downcast, outfile, closes, stdout, retval>>

\* line 52
keys == DOMAIN params

\* the conversion applied to every tensor, castable or not
TensorCastAll(param, castable) ==
  IF downcast THEN To(params[param], "float16") ELSE params[param]

\* lines 61-63: the tensor looked up, converted to float16 when asked to
Tensor(param, castable) ==
  IF downcast /\ castable THEN To(params[param], "float16") ELSE params[param]

\* lines 64-72: the dtypes one of the branches on tensor.dtype takes
Recognized(dtype) == dtype \in {"float32", "float16", "int32"}

\* the int32 branch naming the float32 prefix
TypePrefixIntAsFloat(dtype) ==
  CASE dtype = "float32" -> "float32/"
    [] dtype = "float16" -> "float16/"
    [] dtype = "int32"   -> "float32/"

\* lines 64-69: the prefix the branch sets
TypePrefix(dtype) ==
  CASE dtype = "float32" -> "float32/"
    [] dtype = "float16" -> "float16/"
    [] dtype = "int32"   -> "int32/"

\* leaving the with block of line 53 closes the zip file, on every path
ExitWith == closes' = closes + 1

InLoop == pc = "loop" /\ index <= Len(paramlist)

\* break in place of continue: an absent optional parameter ends the loop
SkipOptionalBreak ==
  /\ InLoop
  /\ LET e == paramlist[index] IN
       /\ e[1] \notin keys
       /\ e[4]
  /\ index' = Len(paramlist) + 1
  /\ UNCHANGED <<params, num_layers, downcast, paramlist, outfile, closes,
                 stdout, retval, pc>>

\* the optional test placed before the lookup: an optional parameter may be
\* passed over although the checkpoint has it
SkipOptionalPresent ==
  /\ InLoop
  /\ paramlist[index][4]
  /\ index' = index + 1
  /\ UNCHANGED <<params, num_layers, downcast, paramlist, outfile, closes,
                 stdout, retval, pc>>

\* lines 55-57: an absent optional parameter is passed over
SkipOptional ==
  /\ InLoop
  /\ LET e == paramlist[index] IN
       /\ e[1] \notin keys
       /\ e[4]
  /\ index' = index + 1
  /\ UNCHANGED <<params, num_layers, downcast, paramlist, outfile, closes,
                 stdout, retval, pc>>

\* the message naming the destination name in place of the key
BailMissingNamesDest ==
  /\ InLoop
  /\ LET e == paramlist[index] IN
       /\ e[1] \notin keys
       /\ ~e[4]
       /\ stdout' = Append(stdout, "Parameters for " \o e[2] \o " not found, bailing out")
  /\ retval' = "False"
  /\ ExitWith
  /\ pc' = "done"
  /\ UNCHANGED <<params, num_layers, downcast, paramlist, index, outfile>>

\* lines 55-59: an absent parameter that is not optional ends the conversion
BailMissing ==
  /\ InLoop
  /\ LET e == paramlist[index] IN
       /\ e[1] \notin keys
       /\ ~e[4]
       /\ stdout' = Append(stdout, "Parameters for " \o e[1] \o " not found, bailing out")
  /\ retval' = "False"
  /\ ExitWith
  /\ pc' = "done"
  /\ UNCHANGED <<params, num_layers, downcast, paramlist, index, outfile>>

\* the return of line 72 left out: the message is printed and the loop goes on
BailTypeNoReturn ==
  /\ InLoop
  /\ LET e == paramlist[index] IN
       /\ e[1] \in keys
       /\ ~Recognized(Tensor(e[1], e[3]).dtype)
  /\ stdout' = Append(stdout, "Unknown data type")
  /\ index' = index + 1
  /\ UNCHANGED <<params, num_layers, downcast, paramlist, outfile, closes,
                 retval, pc>>

\* lines 61-72: a tensor whose dtype has no branch ends the conversion
BailType ==
  /\ InLoop
  /\ LET e == paramlist[index] IN
       /\ e[1] \in keys
       /\ ~Recognized(Tensor(e[1], e[3]).dtype)
  /\ stdout' = Append(stdout, "Unknown data type")
  /\ retval' = "False"
  /\ ExitWith
  /\ pc' = "done"
  /\ UNCHANGED <<params, num_layers, downcast, paramlist, index, outfile>>

\* lines 61-74: the tensor is written under its type prefix
WriteEntry ==
  /\ InLoop
  /\ LET e == paramlist[index] IN
       /\ e[1] \in keys
       /\ LET tensor == Tensor(e[1], e[3]) IN
            /\ Recognized(tensor.dtype)
            /\ outfile' = Append(outfile,
                 [filename |-> TypePrefix(tensor.dtype) \o e[2],
                  data     |-> ToBytes(tensor)])
  /\ index' = index + 1
  /\ UNCHANGED <<params, num_layers, downcast, paramlist, closes, stdout,
                 retval, pc>>

\* the list is exhausted: the with block ends and the function returns
\* without a return statement
Finish ==
  /\ pc = "loop"
  /\ index > Len(paramlist)
  /\ retval' = "None"
  /\ ExitWith
  /\ pc' = "done"
  /\ UNCHANGED <<params, num_layers, downcast, paramlist, index, outfile, stdout>>

Next ==
  \/ BuildParamList
  \/ SkipOptional
  \/ BailMissing
  \/ BailType
  \/ WriteEntry
  \/ Finish

Spec == Init /\ [][Next]_vars

\* ------------------------------------------------------------------------
\* Vocabulary of the properties, stated on the checkpoint keys rather than
\* on the flags of the parameter list
\* ------------------------------------------------------------------------

\* the bias tensors of the MLP projections
MlpBiasKeys(n) == QuantKeys(n, MlpProj, ".bias")

\* embedding, both layer norms of each layer, final norm, output head
EligibleKeys(n) == GlobalKeys \cup NormKeys(n)

ItemSize(dtype) ==
  CASE dtype = "float32" -> 4
    [] dtype = "float16" -> 2
    [] dtype = "int32"   -> 4
    [] dtype = "float64" -> 8

PrefixOf(dtype) == dtype \o "/"

AllPrefixes == {PrefixOf(d) : d \in DTypes}

Built == pc # "start"

Succeeded == pc = "done" /\ retval = "None"

Failed == pc = "done" /\ retval = "False"

Entries == DOMAIN paramlist

Key(k) == paramlist[k][1]

Dest(k) == paramlist[k][2]

Present(k) == Key(k) \in DOMAIN params

\* for every entry of the list, "absent" when the checkpoint lacks its key and
\* else the element type it is classified by: float16 for an eligible key
\* under downcast, the source tensor's own otherwise
EntryTypes ==
  LET elig == EligibleKeys(num_layers)
      dom  == DOMAIN params
  IN [k \in Entries |->
        IF Key(k) \notin dom THEN "absent"
        ELSE IF downcast /\ Key(k) \in elig THEN "float16"
        ELSE params[Key(k)].dtype]

\* entry k stops the conversion: absent and not optional in the list, or of
\* an element type without a prefix
StopsAt(ty, k) ==
  LET t == ty[k] IN
  \/ t = "absent" /\ ~paramlist[k][4]
  \/ t # "absent" /\ t \notin SupportedDTypes

\* the first such entry, 0 when there is none
FirstStopIn(ty) ==
  LET stops == {k \in Entries : StopsAt(ty, k)}
  IN IF stops = {} THEN 0
     ELSE CHOOSE k \in stops : \A k2 \in stops : k <= k2

FirstStop == LET ty == EntryTypes IN FirstStopIn(ty)

Keys == {Key(k) : k \in Entries}

Dests == {Dest(k) : k \in Entries}

WrittenNames == {outfile[j].filename : j \in DOMAIN outfile}

Written(name) == \E j \in DOMAIN outfile : outfile[j].filename = name

FileNames == [j \in DOMAIN outfile |-> outfile[j].filename]

\* the file names of the present entries among the first k, in list order
RECURSIVE PresentNamesIn(_, _)
PresentNamesIn(ty, k) ==
  IF k = 0 THEN <<>>
  ELSE LET t == ty[k] IN
       IF t # "absent"
       THEN Append(PresentNamesIn(ty, k - 1), PrefixOf(t) \o Dest(k))
       ELSE PresentNamesIn(ty, k - 1)

PresentNames(k) == LET ty == EntryTypes IN PresentNamesIn(ty, k)

LastLine == IF stdout = <<>> THEN "" ELSE stdout[Len(stdout)]

\* ------------------------------------------------------------------------
\* Properties
\* ------------------------------------------------------------------------

\* C1: the zip file is closed (finalized) exactly once when the conversion
\* succeeds and never when it fails: a failed conversion leaves no closed
\* archive behind.
C1_FinalizedOnlyOnSuccess ==
  /\ Succeeded => closes = 1
  /\ Failed => closes = 0
  /\ pc # "done" => closes = 0

\* C2: an entry of the parameter list is optional iff it is the bias of an MLP
\* projection, and the absence of any other listed key makes the conversion
\* fail.
C2_OptionalIffMlpBias ==
  /\ Built => LET bias == MlpBiasKeys(num_layers) IN
                \A k \in Entries : paramlist[k][4] <=> Key(k) \in bias
  /\ (pc = "done"
        /\ \E key \in ListedKeys(num_layers) \ MlpBiasKeys(num_layers) :
             key \notin DOMAIN params)
       => Failed

\* C3 as stated: the list has 2 + 26*num_layers entries, with pairwise
\* distinct destination names and pairwise distinct source keys.
C3_TwoPlus26PerLayer ==
  Built =>
    /\ Len(paramlist) = 2 + 26 * num_layers
    /\ Cardinality(Keys) = Len(paramlist)
    /\ Cardinality(Dests) = Len(paramlist)

\* what follows 'model.layers.<l>' in the source keys of a decoder layer
LayerSuffixes ==
  {p \o part : p \in AttnProj \cup MlpProj, part \in {".qweight", ".scales", ".qzeros"}}
    \cup {p \o ".bias" : p \in MlpProj}
    \cup {".input_layernorm.weight", ".post_attention_layernorm.weight"}

\* the source keys of decoder layer l
LayerKeys(l) ==
  LET layer == "model.layers." \o ToString(l)
  IN {layer \o suffix : suffix \in LayerSuffixes}

\* C3, amended: the list has 3 + 26*num_layers entries: the embedding first,
\* then the 26 entries of each layer in ascending layer order, then the final
\* norm and the output head; destination names are pairwise distinct and
\* source keys are pairwise distinct.
C3_ThreePlus26PerLayer ==
  Built =>
    /\ Len(paramlist) = 3 + 26 * num_layers
    /\ Key(1) = "model.embed_tokens.weight" /\ Dest(1) = "embedding.embed"
    /\ \A l \in LayerRange(num_layers) :
         {Key(1 + 26 * l + r) : r \in 1..26} = LayerKeys(l)
    /\ Key(Len(paramlist) - 1) = "model.norm.weight"
    /\ Dest(Len(paramlist) - 1) = "modelnorm.weights"
    /\ Key(Len(paramlist)) = "lm_head.weight"
    /\ Dest(Len(paramlist)) = "tokenscoring.embed"
    /\ Cardinality(Keys) = Len(paramlist)
    /\ Cardinality(Dests) = Len(paramlist)

\* the list of a converter run for two layers has been built
C3_Witness == Built /\ num_layers = 2 /\ Len(paramlist) = 55

\* C4: once the first entry that is absent and not optional, or whose
\* (possibly downcast) tensor has an element type without a prefix, is reached,
\* the conversion ends failed; neither that entry nor any later entry of the
\* list is ever written, whatever the checkpoint holds for them.
C4_AbortOnFirstFailure ==
  Built =>
    LET first == FirstStop IN
    first # 0 =>
      /\ index <= first
      /\ pc = "done" => Failed /\ index = first
      /\ index = first =>
           WrittenNames
             \cap {t \o Dest(k) : t \in AllPrefixes, k \in first..Len(paramlist)}
             = {}

\* a conversion stopped, after writing at least one entry, at an entry that
\* present and well-typed entries follow
C4_Witness ==
  /\ Failed
  /\ outfile # <<>>
  /\ index < Len(paramlist)
  /\ LET ty == EntryTypes IN
       \A k \in (index + 1)..Len(paramlist) : ty[k] \in SupportedDTypes

\* C5: when the only listed keys the checkpoint lacks are MLP biases and every
\* other entry has a (possibly downcast) tensor of supported type, the
\* conversion succeeds, no file is written for an absent bias under any type
\* prefix, and every other entry is written, those after the bias included.
C5_AbsentBiasSkipped ==
  pc = "done" =>
    LET ty     == EntryTypes
        absent == {k \in Entries : ty[k] = "absent"}
        bias   == MlpBiasKeys(num_layers)
        names  == WrittenNames
    IN (/\ absent # {}
        /\ \A k \in absent : Key(k) \in bias
        /\ \A k \in Entries \ absent : ty[k] \in SupportedDTypes)
         =>
           /\ Succeeded
           /\ names \cap {t \o Dest(k) : t \in AllPrefixes, k \in absent} = {}
           /\ \A k \in Entries \ absent : PrefixOf(ty[k]) \o Dest(k) \in names

\* a finished conversion of a checkpoint that lacks exactly one bias, with the
\* entry after it written
C5_Witness ==
  /\ Succeeded
  /\ LET ty == EntryTypes IN
       /\ Cardinality({k \in Entries : ty[k] = "absent"}) = 1
       /\ \A k \in Entries : ty[k] = "absent" =>
            /\ Key(k) \in MlpBiasKeys(num_layers)
            /\ Written(PrefixOf(ty[k + 1]) \o Dest(k + 1))

AllFloat32 == \A key \in DOMAIN params : params[key].dtype = "float32"

\* the files written under the name pre \o <destination name of entry k>
FileOf(k, pre) ==
  {outfile[j] : j \in {j \in DOMAIN outfile : outfile[j].filename = pre \o Dest(k)}}

\* C6: with downcast = true and every tensor of the checkpoint float32, every
\* eligible entry (embedding, layer norms, final norm, output head) is written
\* under float16/ with half the bytes of its source tensor, and every other
\* entry under float32/ with the bytes of its source tensor unchanged.
C6_DowncastFloat32 ==
  (Built /\ downcast /\ AllFloat32) =>
    LET elig == EligibleKeys(num_layers)
        dom  == DOMAIN params
    IN \A k \in 1..(index - 1) : Key(k) \in dom =>
         IF Key(k) \in elig
         THEN /\ Cardinality(FileOf(k, "float16/")) = 1
              /\ FileOf(k, "float32/") = {}
              /\ \A f \in FileOf(k, "float16/") :
                   /\ 2 * Len(f.data) = Len(ToBytes(params[Key(k)]))
                   /\ Len(f.data) = 2 * Len(params[Key(k)].vals)
         ELSE /\ Cardinality(FileOf(k, "float32/")) = 1
              /\ FileOf(k, "float16/") = {}
              /\ \A f \in FileOf(k, "float32/") :
                   /\ f.data = ToBytes(params[Key(k)])
                   /\ Len(f.data) = 4 * Len(params[Key(k)].vals)

\* a complete float32 checkpoint of two layers converted with downcast
C6_Witness ==
  /\ Succeeded /\ downcast /\ AllFloat32
  /\ num_layers = 2
  /\ Keys \subseteq DOMAIN params
  /\ Written("float16/dec1ln1.weights")
  /\ Written("float32/dec1down.scales")

\* the error values the specification names, as the caller would see them
MissingMandatoryParameter(key) == "MissingMandatoryParameter(" \o key \o ")"

UnrecognizedElementType(path, dtype) ==
  "UnrecognizedElementType(" \o path \o ", " \o dtype \o ")"

C8_ExactArchive ==
  (Succeeded /\ ~downcast) =>
    LET dom     == DOMAIN params
        present == {k \in Entries : Key(k) \in dom}
    IN /\ Len(outfile) = Cardinality(present)
       /\ WrittenNames =
            {PrefixOf(params[Key(k)].dtype) \o Dest(k) : k \in present}
       /\ Cardinality(WrittenNames) = Len(outfile)
       /\ \A k \in present :
            \A f \in FileOf(k, PrefixOf(params[Key(k)].dtype)) :
              /\ Len(f.data) = ItemSize(params[Key(k)].dtype) * Len(params[Key(k)].vals)
              /\ f.data = ToBytes(params[Key(k)])
       /\ (num_layers = 0 /\ AllFloat32 /\ dom = GlobalKeys) =>
            /\ WrittenNames = {"float32/embedding.embed", "float32/modelnorm.weights",
                               "float32/tokenscoring.embed"}
            /\ \A j \in DOMAIN outfile :
                 \E key \in GlobalKeys :
                   Len(outfile[j].data) = 4 * Len(params[key].vals)

\* a successful conversion without downcast of a checkpoint with int32 and
\* float16 tensors and keys the list does not name
C8_Witness ==
  /\ Succeeded /\ ~downcast
  /\ num_layers = 2
  /\ Written("int32/dec1att.query.weights")
  /\ Written("float16/dec0up.bias")
  /\ DOMAIN params \ Keys # {}

\* C9: in every state the files written so far are, in order, those of the
\* entries among the already processed part of the list whose key the
\* checkpoint has; files are written in list order and no file name twice.
C9_WrittenIsPresentPrefix ==
  Built =>
    /\ FileNames = PresentNames(index - 1)
    /\ Cardinality(WrittenNames) = Len(outfile)

\* the loop is past an absent optional entry and has written the entries
\* before and after it
C9_Witness ==
  /\ pc = "loop"
  /\ \E k \in 2..(index - 2) : ~Present(k) /\ Present(k - 1) /\ Present(k + 1)
  /\ Len(outfile) = index - 2

\* C10: with downcast = true an eligible entry whose key is present is written
\* under float16/ whatever the element type of its source tensor, and is never
\* the entry the conversion stops at; otherwise the file is written under the
\* source tensor's own element type, and an element type without a prefix
\* stops the conversion there.
C10_PrefixPolicy ==
  Built =>
    LET elig  == EligibleKeys(num_layers)
        dom   == DOMAIN params
        names == WrittenNames
    IN /\ \A k \in 1..(index - 1) : Key(k) \in dom =>
            IF downcast /\ Key(k) \in elig
            THEN "float16/" \o Dest(k) \in names
            ELSE /\ params[Key(k)].dtype \in SupportedDTypes
                 /\ PrefixOf(params[Key(k)].dtype) \o Dest(k) \in names
       /\ (Failed /\ Key(index) \in dom) =>
            /\ ~(downcast /\ Key(index) \in elig)
            /\ params[Key(index)].dtype \notin SupportedDTypes

\* with downcast, an eligible float64 tensor has been written as float16 and a
\* later float32 tensor under float32/
C10_Witness ==
  /\ downcast
  /\ "model.embed_tokens.weight" \in DOMAIN params
  /\ params["model.embed_tokens.weight"].dtype = "float64"
  /\ Written("float16/embedding.embed")
  /\ Written("float32/dec0att.query.scales")

====
